---- MODULE Spec2Model ----
(***************************************************************************)
(* Model of the Emergency Responder component (src/src/App.jsx): the      *)
(* throttle helper, the location, network-quality and inactivity watchers  *)
(* and the emergency arbiter (triggerEmergency), driven by a browser timer *)
(* queue.  Time is counted in whole seconds since the component mounted.   *)
(*                                                                         *)
(* Every JavaScript function is an operator from a state record to a state *)
(* record, so that one handler can call another as the code does; an       *)
(* action applies one handler to the current state.                        *)
(***************************************************************************)
EXTENDS Integers, Sequences, FiniteSets, TLC

VARIABLES
    now,             \* seconds elapsed since mount (the browser's clock)
    mounted,         \* the component is mounted (effects' cleanups not yet run)
    location,        \* useState(null): <<>> or <<lat, lng>>
    networkStatus,   \* useState("checking...")
    isInactive,      \* useState(false)
    emergencyMode,   \* useState(false)
    logs,            \* useState([])
    timers,          \* the browser's pending setTimeout timers
    inactivityTimer, \* useRef(null): a timer id
    emergencyTimer,  \* useRef(null): a timer id
    initTimer,       \* the network effect's initTimer id
    actThrottle,     \* closure of throttle(handleActivity, 1000)
    netThrottle,     \* closure of throttle(updateNetworkStatus, 5000)
    connection,      \* navigator.connection: effectiveType, downlink, rtt
    obs              \* observations of the run (history, not program state)

vars == <<now, mounted, location, networkStatus, isInactive, emergencyMode, logs,
          timers, inactivityTimer, emergencyTimer, initTimer, actThrottle,
          netThrottle, connection, obs>>

-----------------------------------------------------------------------------
(* Bounds of the model *)

MaxTime == 58
MaxInputs == 2
MaxWakes == 1
MaxClicks == 2
MaxChanges == 4
MaxNetTime == 12
MaxReadings == 3
MaxErrors == 2
MaxAppends == 22
MaxCoord == 3
Epoch == 1

(* Program constants, in seconds *)

InactivityLimit == 45
ResolveDelay == 10
EscalationDelay == 30
InitDelay == 2
ActivityThrottle == 1
NetworkThrottle == 5
LogLimit == 20
LogKeep == 19

(* JavaScript's null / undefined for a timer id and for lastRan *)
Null == 0
Undefined == -1

Max(a, b) == IF a >= b THEN a ELSE b

-----------------------------------------------------------------------------
(* The state record the handlers work on *)

Cur ==
    [now |-> now, mounted |-> mounted, location |-> location,
     networkStatus |-> networkStatus, isInactive |-> isInactive,
     emergencyMode |-> emergencyMode, logs |-> logs, timers |-> timers,
     inactivityTimer |-> inactivityTimer, emergencyTimer |-> emergencyTimer,
     initTimer |-> initTimer, actThrottle |-> actThrottle,
     netThrottle |-> netThrottle, connection |-> connection, obs |-> obs]

Apply(s) ==
    /\ now' = s.now
    /\ mounted' = s.mounted
    /\ location' = s.location
    /\ networkStatus' = s.networkStatus
    /\ isInactive' = s.isInactive
    /\ emergencyMode' = s.emergencyMode
    /\ logs' = s.logs
    /\ timers' = s.timers
    /\ inactivityTimer' = s.inactivityTimer
    /\ emergencyTimer' = s.emergencyTimer
    /\ initTimer' = s.initTimer
    /\ actThrottle' = s.actThrottle
    /\ netThrottle' = s.netThrottle
    /\ connection' = s.connection
    /\ obs' = s.obs

(* Date.now(): a positive wall-clock time *)
DateNow(s) == Epoch + s.now

-----------------------------------------------------------------------------
(* The browser's timer queue *)

UsedIds(s) ==
    {t.id : t \in s.timers}
        \cup {s.inactivityTimer, s.emergencyTimer, s.initTimer,
              s.actThrottle.lastFunc, s.netThrottle.lastFunc}

(* setTimeout returns an id no pending timer and no variable holds *)
FreshId(s) == CHOOSE i \in 1..(Cardinality(UsedIds(s)) + 1) : i \notin UsedIds(s)

(* setTimeout(cb, delay): a negative delay counts as 0 *)
setTimeout(s, id, cb, args, delay) ==
    [s EXCEPT !.timers = @ \cup {[id |-> id, at |-> s.now + Max(delay, 0),
                                  cb |-> cb, args |-> args]}]

(* clearTimeout(id): no effect when no pending timer has this id *)
clearTimeout(s, id) == [s EXCEPT !.timers = {t \in @ : t.id # id}]

Due(t) == t.at <= now

-----------------------------------------------------------------------------
(* React state setters: an update of an unmounted component is dropped; *)
(* obs.dropped keeps that a setter was called after the unmount         *)

SetState(s, field, value) ==
    IF s.mounted THEN [s EXCEPT ![field] = value] ELSE [s EXCEPT !.obs.dropped = TRUE]

(* addLog: setLogs(prev => ...) *)
addLogUpdater(prev, message) ==
    IF Len(prev) > LogLimit
    THEN Append(SubSeq(prev, Len(prev) - LogKeep + 1, Len(prev)), message)
    ELSE Append(prev, message)

addLog(s, message) == SetState(s, "logs", addLogUpdater(s.logs, message))

-----------------------------------------------------------------------------
(* What the closures created by the mount render captured.  The effects   *)
(* run once (their dependency lists hold only the stable addLog, or are   *)
(* empty), so the callbacks they register keep the first render's         *)
(* triggerEmergency and handleNetworkEmergency for the component's life.  *)

MountEmergencyMode == FALSE
MountNetworkStatus == "checking..."

-----------------------------------------------------------------------------
(* Emergency arbiter *)

(* triggerEmergency as created by a render whose emergencyMode was        *)
(* closureMode                                                             *)
triggerEmergency(s, reason, closureMode) ==
    IF closureMode
    THEN s
    ELSE LET s1 == SetState(s, "emergencyMode", TRUE)
             s2 == addLog(s1, "EMERGENCY: " \o reason)
         IN  setTimeout(s2, FreshId(s2), "resolve", 0, ResolveDelay)

(* A resolution callback that clears the flag and logs nothing *)
resolveTimeoutSilent(s) == SetState(s, "emergencyMode", FALSE)

(* The resolution timer's callback *)
resolveTimeout(s) ==
    addLog(SetState(s, "emergencyMode", FALSE), "Emergency resolved")

(* A call of triggerEmergency, with what it did recorded in obs: the     *)
(* reason, whether the emergency was active with its resolution not yet *)
(* due, whether the call changed the log, whether it armed a timer, and *)
(* when it turned an idle arbiter active.                               *)
Trigger(s, reason, closureMode) ==
    LET r == triggerEmergency(s, reason, closureMode)
    IN  [r EXCEPT !.obs.trigReason = reason,
                  !.obs.trigActive =
                      (s.emergencyMode
                          /\ \A t \in s.timers : t.cb = "resolve" => t.at > s.now),
                  !.obs.trigLogged = (r.logs # s.logs),
                  !.obs.trigArmed = (r.timers # s.timers),
                  !.obs.acceptedAt =
                      IF ~s.emergencyMode /\ r.emergencyMode THEN s.now ELSE @]

(* A handler that kept the mount render's triggerEmergency *)
simulateAccidentStale(s) == Trigger(s, "MANUAL_TEST", MountEmergencyMode)

(* simulateAccident: the button's handler of the current render *)
simulateAccident(s) == Trigger(s, "MANUAL_TEST", s.emergencyMode)

-----------------------------------------------------------------------------
(* Inactivity watcher *)

(* An activity handler that leaves the pending countdown running *)
handleActivityNoClear(s) ==
    LET s1 == SetState(s, "isInactive", FALSE)
        id == FreshId(s1)
    IN  [setTimeout(s1, id, "inactivity", 0, InactivityLimit)
            EXCEPT !.inactivityTimer = id]

handleActivity(s) ==
    LET s1 == SetState(s, "isInactive", FALSE)
        s2 == clearTimeout(s1, s1.inactivityTimer)
        id == FreshId(s2)
    IN  [setTimeout(s2, id, "inactivity", 0, InactivityLimit)
            EXCEPT !.inactivityTimer = id]

(* The countdown's callback, created by the mount render's effect *)
inactivityTimeout(s) ==
    LET s1 == SetState(s, "isInactive", TRUE)
        s2 == addLog(s1, "User inactive - possible emergency")
    IN  Trigger(s2, "INACTIVITY", MountEmergencyMode)

-----------------------------------------------------------------------------
(* Network quality watcher *)

(* Thresholds: downlink in kbit/s (the code compares Mbit/s), rtt in ms *)
PoorDownlink == 1000
VeryPoorDownlink == 500
PoorRtt == 1000
VeryPoorRtt == 2000

(* String.prototype.includes on strings kept as sequences of characters *)
Includes(str, sub) ==
    \E i \in 1..(Len(str) - Len(sub) + 1) : SubSeq(str, i, i + Len(sub) - 1) = sub

Slow2g == <<"s", "l", "o", "w", "-", "2", "g">>
TwoG == <<"2", "g">>
ThreeG == <<"3", "g">>
FourG == <<"4", "g">>

(* The readings navigator.connection may hold *)
EffectiveTypes == {Slow2g, TwoG, ThreeG, FourG}
Downlinks == {VeryPoorDownlink - 1, VeryPoorDownlink, PoorDownlink}
Rtts == {PoorRtt, VeryPoorRtt, VeryPoorRtt + 1}
Samples == [effectiveType : EffectiveTypes, downlink : Downlinks, rtt : Rtts]

(* The readings a change event brings: good, poor, and two that meet a  *)
(* very-poor condition                                                  *)
ChangeSamples ==
    {[effectiveType |-> FourG, downlink |-> PoorDownlink, rtt |-> PoorRtt],
     [effectiveType |-> ThreeG, downlink |-> VeryPoorDownlink, rtt |-> PoorRtt],
     [effectiveType |-> FourG, downlink |-> PoorDownlink, rtt |-> VeryPoorRtt + 1],
     [effectiveType |-> Slow2g, downlink |-> VeryPoorDownlink - 1,
      rtt |-> VeryPoorRtt + 1]}

(* The classification policy as the specification words it: very-poor is *)
(* looked for first, then poor.                                           *)
MeetsVeryPoor(c) ==
    Includes(c.effectiveType, Slow2g) \/ c.downlink < VeryPoorDownlink
        \/ c.rtt > VeryPoorRtt

MeetsPoor(c) ==
    Includes(c.effectiveType, TwoG) \/ c.downlink < PoorDownlink \/ c.rtt > PoorRtt

PolicyTier(c) ==
    IF MeetsVeryPoor(c) THEN "very-poor" ELSE IF MeetsPoor(c) THEN "poor" ELSE "good"

(* The if / else-if chain of updateNetworkStatus *)
Classify(c) ==
    IF Includes(c.effectiveType, TwoG) \/ c.downlink < PoorDownlink \/ c.rtt > PoorRtt
    THEN "poor"
    ELSE IF Includes(c.effectiveType, Slow2g) \/ c.downlink < VeryPoorDownlink
                \/ c.rtt > VeryPoorRtt
         THEN "very-poor"
         ELSE "good"

(* The escalation timer's callback: handleNetworkEmergency is the mount   *)
(* render's, so it reads that render's networkStatus and triggerEmergency *)
escalationTimeout(s) ==
    IF MountNetworkStatus = "very-poor"
    THEN Trigger(s, "NETWORK_FAILURE", MountEmergencyMode)
    ELSE s

handleNetworkEmergency(s) ==
    LET s1 == addLog(s, "Poor network detected - monitoring")
        s2 == clearTimeout(s1, s1.emergencyTimer)
        id == FreshId(s2)
    IN  [setTimeout(s2, id, "escalation", 0, EscalationDelay)
            EXCEPT !.emergencyTimer = id]

updateNetworkStatus(s) ==
    LET status == Classify(s.connection)
        s1 == SetState(s, "networkStatus", status)
        s2 == IF status = "very-poor" THEN handleNetworkEmergency(s1) ELSE s1
    IN  [s2 EXCEPT !.obs.classified = <<s.connection>>,
                   !.obs.classifiedAt = s.now,
                   !.obs.classifiedAs = status,
                   !.obs.armed = (s2.timers # s1.timers)]

-----------------------------------------------------------------------------
(* throttle(func, limit).  key names the wrapper: "actThrottle" is         *)
(* throttle(handleActivity, 1000), "netThrottle" is                        *)
(* throttle(updateNetworkStatus, 5000).  Both callbacks ignore their       *)
(* arguments; a call's arguments are identified by the call's number.      *)

(* What obs records of a wrapper: the number of calls; windowFrom, the    *)
(* time of the first call while every call so far came less than the     *)
(* interval after it, and Closed afterwards; whether the last call came  *)
(* in a quiet period and whether it ran func itself; the runs of func by *)
(* a call and by a trailing timer; the arguments and time of the last    *)
(* run; whether all runs so far came at least the interval apart.        *)
Closed == Undefined - 1

Limit(key) == IF key = "actThrottle" THEN ActivityThrottle ELSE NetworkThrottle

Func(key, s) == IF key = "actThrottle" THEN handleActivity(s) ELSE updateNetworkStatus(s)

(* A wrapper that runs func on every call *)
RunsImmediatelyAlways(lastRan) == TRUE

(* if (!lastRan): lastRan is undefined until the first run; Date.now() is *)
(* never 0                                                                 *)
RunsImmediately(lastRan) == lastRan = Undefined \/ lastRan = 0

(* limit - (Date.now() - lastRan) *)
TrailingDelay(limit, lastRan, t) == limit - (t - lastRan)

(* A trailing check that wants more than the interval to have passed *)
TrailingDueStrict(limit, lastRan, t) == t - lastRan > limit

(* if (Date.now() - lastRan >= limit) *)
TrailingDue(limit, lastRan, t) == t - lastRan >= limit

(* func.apply(context, args); lastRan = Date.now(), with the run recorded *)
RunFunc(s, key, args, how) ==
    LET s1 == Func(key, s)
    IN  [s1 EXCEPT ![key].lastRan = DateNow(s1),
                   !.obs[key].runsApart =
                       @ /\ (s.obs[key].runAt = Undefined
                                \/ s.now - s.obs[key].runAt >= Limit(key)),
                   !.obs[key].runAt = s.now,
                   !.obs[key].runArgs = args,
                   !.obs[key].syncRuns = IF how = "sync" THEN @ + 1 ELSE @,
                   !.obs[key].timerRuns = IF how = "timer" THEN @ + 1 ELSE @]

(* The function throttle returns, called with the arguments of call number *)
(* obs[key].calls + 1                                                       *)
throttled(s, key) ==
    LET th == s[key]
        args == s.obs[key].calls + 1
        quiet == \/ s.obs[key].runAt = Undefined
                 \/ /\ s.now - s.obs[key].runAt >= Limit(key)
                    /\ \A t \in s.timers : t.id # th.lastFunc
        sync == RunsImmediately(th.lastRan)
        s0 == [s EXCEPT !.obs[key].calls = args,
                        !.obs[key].windowFrom =
                            IF @ = Undefined THEN s.now
                            ELSE IF @ # Closed /\ s.now - @ < Limit(key) THEN @
                            ELSE Closed,
                        !.obs[key].callQuiet = quiet,
                        !.obs[key].callSync = sync]
    IN  IF sync
        THEN RunFunc(s0, key, args, "sync")
        ELSE LET s1 == clearTimeout(s0, th.lastFunc)
                 id == FreshId(s1)
             IN  [setTimeout(s1, id, key, args,
                             TrailingDelay(Limit(key), th.lastRan, DateNow(s1)))
                     EXCEPT ![key].lastFunc = id]

(* The trailing timer's callback *)
throttleTimeout(s, key, args) ==
    IF TrailingDue(Limit(key), s[key].lastRan, DateNow(s))
    THEN RunFunc(s, key, args, "timer")
    ELSE s

-----------------------------------------------------------------------------
(* Background heartbeat.  A message in flight is a task of the queue that *)
(* is due at once, named by its data; the worker's setInterval is a timer *)
(* that arms itself again.  The mount effect creates the worker and sets  *)
(* its onmessage handler; it posts nothing to the worker.                 *)

HeartbeatPeriod == 30

(* postMessage(data), to the worker or from it *)
postMessage(s, data) == setTimeout(s, FreshId(s), data, 0, 0)

(* The interval's callback in the worker *)
heartbeat(s) ==
    LET s1 == postMessage(s, "HEALTH_CHECK")
    IN  setTimeout(s1, FreshId(s1), "heartbeat", 0, HeartbeatPeriod)

(* self.onmessage in worker.js *)
workerOnMessage(s, data) ==
    IF data = "START_HEALTH_CHECKS"
    THEN setTimeout(s, FreshId(s), "heartbeat", 0, HeartbeatPeriod)
    ELSE s

(* workerRef.current.onmessage in the component *)
mainOnMessage(s, type) ==
    IF type = "HEALTH_CHECK" THEN addLog(s, "Background health check OK") ELSE s

(* workerRef.current.terminate() *)
terminate(s) ==
    [s EXCEPT !.timers = {t \in @ : t.cb \notin {"heartbeat", "START_HEALTH_CHECKS"}}]

-----------------------------------------------------------------------------
(* Location watcher.  Coordinates are counted in units of 0.00005 degree, *)
(* so the code's 0.0001 is two units.                                      *)

Epsilon == 2

Abs(x) == IF x < 0 THEN -x ELSE x

(* A filter that also accepts a move of exactly the threshold *)
SignificantChangeInclusive(prev, lat, lng) ==
    \/ prev = <<>>
    \/ Abs(prev[1] - lat) >= Epsilon
    \/ Abs(prev[2] - lng) >= Epsilon

(* !prev || Math.abs(prev.lat - latitude) > 0.0001 || ... *)
SignificantChange(prev, lat, lng) ==
    \/ prev = <<>>
    \/ Abs(prev[1] - lat) > Epsilon
    \/ Abs(prev[2] - lng) > Epsilon

(* A success callback without the mounted guard *)
geoSuccessUnguarded(s, lat, lng) ==
    LET s0 == [s EXCEPT !.obs.readings = @ + 1, !.obs.reading = <<lat, lng>>]
    IN  IF SignificantChange(s.location, lat, lng)
        THEN SetState(addLog(s0, "Location updated"), "location", <<lat, lng>>)
        ELSE s0

(* The effect's mounted flag is cleared by the cleanup, as s.mounted is *)
geoSuccess(s, lat, lng) ==
    LET s0 == [s EXCEPT !.obs.readings = @ + 1, !.obs.reading = <<lat, lng>>]
    IN  IF ~s.mounted
        THEN s0
        ELSE IF SignificantChange(s.location, lat, lng)
             THEN SetState(addLog(s0, "Location updated"), "location", <<lat, lng>>)
             ELSE s0

geoError(s, message) ==
    LET s0 == [s EXCEPT !.obs.errors = @ + 1]
    IN  IF ~s.mounted THEN s0 ELSE addLog(s0, "Geolocation: " \o message)

-----------------------------------------------------------------------------
(* Mount and unmount *)

ThrottleInit == [lastRan |-> Undefined, lastFunc |-> Null]

ThrottleObsInit ==
    [calls |-> 0, windowFrom |-> Undefined, callQuiet |-> FALSE,
     callSync |-> FALSE, syncRuns |-> 0, timerRuns |-> 0, runArgs |-> 0,
     runAt |-> Undefined, runsApart |-> TRUE]

ObsInit ==
    [trigReason |-> "", trigActive |-> FALSE, trigLogged |-> FALSE,
     trigArmed |-> FALSE, acceptedAt |-> Undefined,
     lastInput |-> 0, inputs |-> 0, clicks |-> 0, changes |-> 0,
     readings |-> 0, reading |-> <<>>, errors |-> 0,
     classified |-> <<>>, classifiedAt |-> Undefined, classifiedAs |-> "",
     armed |-> FALSE, dropped |-> FALSE, veryPoorOnly |-> TRUE, burst |-> TRUE,
     actThrottle |-> ThrottleObsInit, netThrottle |-> ThrottleObsInit]

NoConnection == [effectiveType |-> <<>>, downlink |-> 0, rtt |-> 0]

(* The state after the mount render and its effects, common part *)
Mounted ==
    /\ now = 0
    /\ mounted = TRUE
    /\ location = <<>>
    /\ isInactive = FALSE
    /\ emergencyMode = MountEmergencyMode
    /\ logs = <<>>
    /\ inactivityTimer = Null
    /\ emergencyTimer = Null
    /\ actThrottle = ThrottleInit
    /\ netThrottle = ThrottleInit
    /\ obs = ObsInit

(* A browser without navigator.connection *)
Init ==
    /\ Mounted
    /\ networkStatus = "API not supported"
    /\ connection = NoConnection
    /\ timers = {}
    /\ initTimer = Null

(* A browser with navigator.connection: the initial check is scheduled *)
NetMounted(readings) ==
    /\ Mounted
    /\ networkStatus = MountNetworkStatus
    /\ connection \in readings
    /\ timers = {[id |-> 1, at |-> InitDelay, cb |-> "init", args |-> 0]}
    /\ initTimer = 1

NetInit == NetMounted(ChangeSamples)

ClassifyInit == NetMounted(Samples)

(* The cleanups of the four effects *)
unmount(s) ==
    LET s1 == [s EXCEPT !.mounted = FALSE]
        s2 == clearTimeout(s1, s1.initTimer)
    IN  clearTimeout(terminate(s2), s2.inactivityTimer)

-----------------------------------------------------------------------------
(* Actions *)

(* A mousemove, keydown, scroll or touchstart event on the window, one *)
(* of at most n                                                        *)
InputUpTo(n) ==
    /\ mounted
    /\ now < MaxTime
    /\ obs.inputs < n
    /\ Apply(throttled([Cur EXCEPT !.obs.inputs = @ + 1, !.obs.lastInput = now],
                       "actThrottle"))

Input == InputUpTo(MaxInputs)

FirstInput == InputUpTo(MaxWakes)

(* A click on the TEST EMERGENCY button *)
Click ==
    /\ mounted
    /\ now < MaxTime
    /\ obs.clicks < MaxClicks
    /\ Apply(simulateAccident([Cur EXCEPT !.obs.clicks = @ + 1]))

(* navigator.connection changes and dispatches its change event.  obs   *)
(* keeps whether every change so far brought a reading that meets a     *)
(* very-poor condition, and whether all came within 1 s of the first.   *)
Change ==
    /\ mounted
    /\ now < MaxNetTime
    /\ obs.changes < MaxChanges
    /\ \E c \in ChangeSamples :
          Apply(throttled([Cur EXCEPT !.obs.changes = @ + 1, !.connection = c,
                               !.obs.veryPoorOnly = @ /\ MeetsVeryPoor(c),
                               !.obs.burst =
                                   @ /\ (obs.netThrottle.windowFrom = Undefined
                                           \/ (obs.netThrottle.windowFrom # Closed
                                                /\ now - obs.netThrottle.windowFrom <= 1))],
                          "netThrottle"))

(* The callback of a timer *)
timerCallback(s, t) ==
    CASE t.cb = "resolve" -> resolveTimeout(s)
      [] t.cb = "inactivity" -> inactivityTimeout(s)
      [] t.cb = "escalation" -> escalationTimeout(s)
      [] t.cb = "init" -> updateNetworkStatus(s)
      [] t.cb = "heartbeat" -> heartbeat(s)
      [] t.cb = "START_HEALTH_CHECKS" -> workerOnMessage(s, t.cb)
      [] t.cb = "HEALTH_CHECK" -> mainOnMessage(s, t.cb)
      [] OTHER -> throttleTimeout(s, t.cb, t.args)

(* The browser runs a timer that is due *)
RunTimer ==
    \E t \in timers :
        /\ Due(t)
        /\ Apply(timerCallback([Cur EXCEPT !.timers = @ \ {t}], t))

(* A second passes; timers run on time.  Past the horizon the clock only *)
(* runs for the timers still pending.  obs.acceptedAt, the start of the  *)
(* emergency being watched, is dropped once its ten seconds are over.    *)
TickTo(horizon) ==
    /\ now < horizon \/ timers # {}
    /\ \A t \in timers : ~Due(t)
    /\ now' = now + 1
    /\ obs' = [obs EXCEPT !.acceptedAt =
                   IF @ # Undefined /\ now >= @ + ResolveDelay THEN Undefined ELSE @]
    /\ UNCHANGED <<mounted, location, networkStatus, isInactive, emergencyMode,
                   logs, timers, inactivityTimer, emergencyTimer, initTimer,
                   actThrottle, netThrottle, connection>>

Tick == TickTo(MaxTime)

NetTick == TickTo(MaxNetTime)

Unmount ==
    /\ mounted
    /\ Apply(unmount(Cur))

(* watchPosition delivers a reading *)
Position ==
    /\ obs.readings < MaxReadings
    /\ \E lat \in 0..MaxCoord, lng \in 0..MaxCoord : Apply(geoSuccess(Cur, lat, lng))

(* watchPosition reports a failure *)
ErrorOf(n, messages) ==
    /\ obs.errors < n
    /\ \E m \in messages : Apply(geoError(Cur, m))

PositionError == ErrorOf(MaxErrors, {"Timeout expired", "User denied Geolocation"})

(* watchPosition keeps reporting that the permission is denied *)
Denied == ErrorOf(MaxAppends, {"User denied Geolocation"})

-----------------------------------------------------------------------------
(* Specifications *)

(* The arbiter with the inactivity watcher and the test button *)
Next == Input \/ Click \/ RunTimer \/ Tick

Spec == Init /\ [][Next]_vars

(* The arbiter and the test button, with few input events *)
ArbiterNext == FirstInput \/ Click \/ RunTimer \/ Tick

SpecArbiter == Init /\ [][ArbiterNext]_vars

(* The inactivity watcher alone *)
WatcherNext == Input \/ RunTimer \/ Tick

SpecWatcher == Init /\ [][WatcherNext]_vars

(* The inactivity watcher and the unmount *)
TeardownNext == Input \/ RunTimer \/ Tick \/ Unmount

SpecTeardown == Init /\ [][TeardownNext]_vars

(* The network quality watcher *)
NetNext == Change \/ RunTimer \/ NetTick

SpecNet == NetInit /\ [][NetNext]_vars

(* The network watcher on a connection that does not change: the initial *)
(* check of every reading                                                 *)
ClassifyNext == RunTimer \/ NetTick

SpecClassify == ClassifyInit /\ [][ClassifyNext]_vars

(* The network watcher, with timers that do fire and a clock that runs *)
SpecNetFair == SpecNet /\ WF_vars(RunTimer) /\ WF_vars(NetTick)

(* The log under many appends *)
LogNext == Denied \/ Position

SpecLog == Init /\ [][LogNext]_vars

(* The location watcher *)
GeoNext == Position \/ PositionError \/ Unmount

SpecGeo == Init /\ [][GeoNext]_vars

-----------------------------------------------------------------------------
(* Properties *)

Settled == \A t \in timers : ~Due(t)

(* C1: a call of triggerEmergency made while the emergency is active     *)
(* (and its resolution not yet due), from whichever source, appends no   *)
(* log entry and arms no resolution timer.                               *)
C1_TriggerWhileActiveIsNoOp ==
    (obs.trigReason # "" /\ obs.trigActive) => (~obs.trigLogged /\ ~obs.trigArmed)

(* C2: an emergency accepted at t0 while idle stays active throughout      *)
(* [t0, t0 + 10 s) and is idle once the timers due at t0 + 10 s have run.  *)
C2_ActiveForTenSeconds ==
    obs.acceptedAt # Undefined =>
        /\ now < obs.acceptedAt + ResolveDelay => emergencyMode
        /\ (now = obs.acceptedAt + ResolveDelay /\ Settled) => ~emergencyMode

(* C3: once 46 s have passed without an input event (the span starting at *)
(* mount included) and the timers due have run, the inactive flag is set, *)
(* the last trigger was INACTIVITY, and the emergency is active until     *)
(* 10 s after the countdown ran out.                                      *)
C3_InactivityAfter46s ==
    (mounted /\ Settled /\ now - obs.lastInput > InactivityLimit) =>
        /\ isInactive
        /\ obs.trigReason = "INACTIVITY"
        /\ emergencyMode <=> (now - obs.lastInput < InactivityLimit + ResolveDelay)

(* C4: after a classification of a worst-tier reading, one escalation     *)
(* timer is pending, due 30 s after the classification.                   *)
C4_WorstTierArmsEscalation ==
    (obs.classified # <<>> /\ MeetsVeryPoor(obs.classified[1])
        /\ now < obs.classifiedAt + EscalationDelay) =>
        /\ Cardinality({t \in timers : t.cb = "escalation"}) = 1
        /\ \E t \in timers : /\ t.cb = "escalation"
                             /\ t.id = emergencyTimer
                             /\ t.at = obs.classifiedAt + EscalationDelay

(* C5: updateNetworkStatus gives every reading the tier of the policy:    *)
(* very-poor first, then poor, else good.                                 *)
C5_ClassificationPolicy ==
    obs.classified # <<>> =>
        /\ obs.classifiedAs = PolicyTier(obs.classified[1])
        /\ networkStatus = obs.classifiedAs

(* C6: while all calls of a fresh wrapper lie in a window shorter than   *)
(* the interval, func has run once within the first call, at most once    *)
(* more from the trailing timer, and the trailing run had the arguments   *)
(* of the last call.                                                      *)
C6_OneLeadingOneTrailing ==
    LET o == obs.netThrottle
    IN  (o.windowFrom # Undefined /\ o.windowFrom # Closed) =>
            /\ o.syncRuns = 1
            /\ o.timerRuns <= 1
            /\ o.calls = 1 => (o.callSync /\ o.runAt = o.windowFrom)
            /\ o.timerRuns = 0 => o.runArgs = 1
            /\ o.timerRuns = 1 => o.runArgs = o.calls

C6_Witness ==
    LET o == obs.netThrottle
    IN  /\ o.windowFrom # Undefined /\ o.windowFrom # Closed
        /\ o.calls >= 3
        /\ o.timerRuns = 1
        /\ o.runArgs = o.calls

(* C7: a call made in a quiet period (at least the interval after the    *)
(* last run, no trailing call pending) runs func within the call.        *)
C7_QuietCallRunsImmediately ==
    obs.netThrottle.callQuiet => obs.netThrottle.callSync

(* C8: any two runs of func through a wrapper are at least the interval  *)
(* apart.                                                                 *)
C8_RunsAtLeastIntervalApart == obs.netThrottle.runsApart

C8_Witness ==
    LET o == obs.netThrottle
    IN  o.syncRuns + o.timerRuns >= 3 /\ o.runsApart

(* C9: a call that did not run func is followed by a run of func with    *)
(* the arguments of the latest call, and every trailing run has the      *)
(* arguments of the latest call made before it.                          *)
C9_DeferredCallEventuallyRuns ==
    /\ [][obs.netThrottle.timerRuns' # obs.netThrottle.timerRuns
            => obs.netThrottle.runArgs' = obs.netThrottle.calls]_vars
    /\ (obs.netThrottle.calls # obs.netThrottle.runArgs)
           ~> (obs.netThrottle.calls = obs.netThrottle.runArgs)

C9_Witness ==
    LET o == obs.netThrottle
    IN  o.calls >= 3 /\ o.timerRuns >= 1 /\ o.runArgs = o.calls /\ ~o.callSync

(* C10: a reading delivered while mounted replaces the stored location,  *)
(* and appends 'Location updated' to the log, exactly when nothing is    *)
(* stored or it is more than 0.0001 degree from the stored (last         *)
(* accepted) location on an axis; otherwise location and log stay.       *)
C10_LocationChangesIffSignificant ==
    [][(mounted /\ obs.readings' = obs.readings + 1) =>
          LET r == obs.reading'
          IN  IF \/ location = <<>>
                 \/ Abs(location[1] - r[1]) > Epsilon
                 \/ Abs(location[2] - r[2]) > Epsilon
              THEN location' = r /\ logs' = Append(logs, "Location updated")
              ELSE location' = location /\ logs' = logs]_vars

(* A reading within the threshold of the stored location but not of the  *)
(* reading before it was delivered, and an accepted one before it        *)
C10_Witness ==
    /\ mounted
    /\ obs.readings >= 3
    /\ location # <<>>
    /\ obs.reading # location
    /\ Abs(location[1] - obs.reading[1]) = Epsilon
    /\ Len(logs) >= 2

(* C11: a click on the test button while the emergency is active,       *)
(* whichever trigger activated it, leaves the log, the timers and the   *)
(* emergency state as they were.                                        *)
C11_ManualTriggerWhileActiveIsNoOp ==
    [][(obs.clicks' = obs.clicks + 1 /\ emergencyMode) =>
          /\ logs' = logs
          /\ timers' = timers
          /\ emergencyMode' = emergencyMode
          /\ isInactive' = isInactive]_vars

(* A click made while an emergency raised by the inactivity countdown   *)
(* was active                                                           *)
C11_Witness ==
    /\ obs.trigReason = "MANUAL_TEST"
    /\ obs.trigActive
    /\ emergencyMode
    /\ Len(logs) > 0
    /\ logs[Len(logs)] = "EMERGENCY: INACTIVITY"

(* C12: after three change events within 1 s of each other, each with a *)
(* reading that meets a very-poor condition, func has run once through  *)
(* the 5 s wrapper while its window lasts, and exactly one escalation   *)
(* timer is armed.                                                      *)
C12_BurstArmsOneEscalation ==
    LET o == obs.netThrottle
    IN  (obs.changes = 3 /\ obs.veryPoorOnly /\ obs.burst
            /\ o.windowFrom # Closed /\ now < o.windowFrom + NetworkThrottle) =>
            /\ o.syncRuns + o.timerRuns = 1
            /\ Cardinality({t \in timers : t.cb = "escalation"}) = 1

(* C13: with a worker available and the component mounted, a            *)
(* 'Background health check OK' entry is in the log once the first 30 s *)
(* have passed and the tasks due have run.                              *)
C13_HeartbeatLogged ==
    (mounted /\ Settled /\ now > HeartbeatPeriod) =>
        \E i \in 1..Len(logs) : logs[i] = "Background health check OK"

(* C14: once the component is unmounted no inactivity countdown is      *)
(* pending, whatever input events and trailing timers came before.      *)
C14_NoCountdownAfterTeardown ==
    ~mounted => \A t \in timers : t.cb # "inactivity"

(* C15: a success or error callback delivered after the unmount changes *)
(* no state of the component and calls no state setter.                 *)
C15_GeoCallbackAfterTeardownIsNoOp ==
    [][(~mounted /\ (obs.readings' # obs.readings \/ obs.errors' # obs.errors)) =>
          /\ UNCHANGED <<mounted, location, networkStatus, isInactive,
                         emergencyMode, logs, timers, inactivityTimer,
                         emergencyTimer, initTimer, actThrottle, netThrottle,
                         connection>>
          /\ obs'.dropped = obs.dropped]_vars

(* A reading that would have been accepted, delivered after the unmount *)
C15_Witness ==
    /\ ~mounted
    /\ obs.reading # <<>>
    /\ location # <<>>
    /\ Abs(location[1] - obs.reading[1]) > Epsilon
    /\ obs.errors > 0

(* C16: the log never holds more than 20 entries. *)
C16_LogAtMostTwenty == Len(logs) <= LogLimit

(* The step is the inactivity countdown's callback *)
InactivityFires ==
    /\ Len(logs') = Len(logs) + 2
    /\ logs'[Len(logs) + 1] = "User inactive - possible emergency"

(* C17: the inactivity timeout never fires less than 45 s after an     *)
(* input event on the window, deferred by the throttle or not.          *)
C17_TimeoutNotWithin45sOfInput ==
    [][(obs.inputs > 0 /\ InactivityFires) => now - obs.lastInput >= InactivityLimit]_vars

(* C18: a reading that meets both the poor and the very-poor condition *)
(* is classified poor; the status is never very-poor,                   *)
(* handleNetworkEmergency never runs and no escalation timer is armed.  *)
C18_NeverVeryPoor ==
    /\ \A c \in Samples : (MeetsPoor(c) /\ MeetsVeryPoor(c)) => Classify(c) = "poor"
    /\ networkStatus # "very-poor"
    /\ obs.classifiedAs # "very-poor"
    /\ emergencyTimer = Null
    /\ \A i \in 1..Len(logs) : logs[i] # "Poor network detected - monitoring"
    /\ \A t \in timers : t.cb # "escalation"

(* A change event brought a reading meeting both conditions and the     *)
(* check that followed classified it                                    *)
C18_Witness ==
    /\ obs.changes > 0
    /\ obs.classified = <<connection>>
    /\ MeetsPoor(connection) /\ MeetsVeryPoor(connection)
    /\ obs.netThrottle.syncRuns + obs.netThrottle.timerRuns > 1
    /\ networkStatus = "poor"

(* The 'EMERGENCY: <reason>' entries and the 'Emergency resolved'       *)
(* entries of a log, and the resolution timers of a set of timers       *)
Emergencies(l) ==
    {i \in 1..Len(l) : l[i] \in {"EMERGENCY: " \o r :
                                    r \in {"INACTIVITY", "MANUAL_TEST", "NETWORK_FAILURE"}}}

Resolutions(l) == {i \in 1..Len(l) : l[i] = "Emergency resolved"}

ResolveTimers(ts) == {t \in ts : t.cb = "resolve"}

(* C19: on a mounted component every 'EMERGENCY: <reason>' entry has    *)
(* exactly one resolution, pending or logged; the resolution is armed   *)
(* for 10 s after the entry and logged when its timer runs; an active   *)
(* flag has a resolution timer pending, due within 10 s; there are      *)
(* never more 'Emergency resolved' entries than 'EMERGENCY:' entries.   *)
C19_EveryEmergencyResolvedOnce ==
    /\ [](mounted =>
            /\ Cardinality(Emergencies(logs)) =
                  Cardinality(Resolutions(logs)) + Cardinality(ResolveTimers(timers))
            /\ Cardinality(Resolutions(logs)) <= Cardinality(Emergencies(logs))
            /\ emergencyMode => ResolveTimers(timers) # {}
            /\ \A t \in ResolveTimers(timers) : now <= t.at /\ t.at <= now + ResolveDelay)
    /\ [][/\ Cardinality(Emergencies(logs')) > Cardinality(Emergencies(logs)) =>
                \E t \in ResolveTimers(timers') \ timers : t.at = now + ResolveDelay
          /\ Cardinality(Resolutions(logs')) > Cardinality(Resolutions(logs)) =>
                \E t \in ResolveTimers(timers) \ timers' : t.at = now]_vars

(* Two emergencies that overlapped, both resolved *)
C19_Witness ==
    /\ logs = <<"EMERGENCY: MANUAL_TEST", "User inactive - possible emergency",
                "EMERGENCY: INACTIVITY", "Emergency resolved", "Emergency resolved">>
    /\ ~emergencyMode
    /\ timers = {}

(* The pending inactivity countdowns, the INACTIVITY triggers logged,   *)
(* and the runs of handleActivity so far                                *)
Countdowns(ts) == {t \in ts : t.cb = "inactivity"}

InactivityTriggers == {i \in 1..Len(logs) : logs[i] = "EMERGENCY: INACTIVITY"}

ActivityRuns == obs.actThrottle.syncRuns + obs.actThrottle.timerRuns

(* C20: at most one inactivity countdown is pending; once it has fired  *)
(* none is pending, and one is armed only by a run of handleActivity,   *)
(* so there are never more INACTIVITY triggers than runs of             *)
(* handleActivity and a second trigger needs an activity after the      *)
(* first.                                                               *)
C20_OneCountdownPerActivity ==
    /\ [](/\ Cardinality(Countdowns(timers)) <= 1
          /\ Cardinality(InactivityTriggers) + Cardinality(Countdowns(timers))
                <= ActivityRuns)
    /\ [][/\ InactivityFires => Countdowns(timers') = {}
          /\ Countdowns(timers') \ timers # {} => ActivityRuns' = ActivityRuns + 1]_vars

(* Two INACTIVITY triggers, the second after an activity that followed  *)
(* the first, and nothing pending any more                              *)
C20_Witness ==
    /\ Cardinality(InactivityTriggers) = 2
    /\ ActivityRuns = 2
    /\ isInactive
    /\ timers = {}

====
